---- MODULE Spec2Model ----
(***************************************************************************)
(* Data-driven API test engine of jinx/python: the Excel / YAML case       *)
(* sources (Eve_Pytest-main/tools/excel_tool.py, yaml_tool.py), the        *)
(* dispatcher and response summariser (request_tool.py, reponse_tool.py),  *)
(* the case executor (pytest/PyTest/tools/manage.py) and the two pytest    *)
(* runners (Eve_Pytest-main/testCase/api/test_api.py).                     *)
(*                                                                         *)
(* Python values are records [t, v]: t is the Python type, v the text of   *)
(* the value as a sequence of symbols (a symbol is a character or an       *)
(* indivisible run of characters).  A str and an int with the same text    *)
(* are different values, as in Python ('200' != 200).                      *)
(***************************************************************************)
EXTENDS Integers, Sequences, FiniteSets, TLC

VARIABLES
    sheet,      \* the workbook on disk: physical row -> physical column -> cell
    df,         \* ExcelPack._df, the cached DataFrame (0-based rows and columns)
    tests,      \* the parametrized tests pytest collected, in execution order
    pc,         \* position of the pytest run: [k, step]
    result,     \* local `result` of the running test function
    response,   \* local `response` of Manage.execute_test_case (the summary)
    transport,  \* what the network did with the request of the running test
    sent,       \* what the running test handed to session.request
    nSession,   \* number of requests.Session objects created so far
    nSend,      \* per test: calls of Requests.send_request
    nHttp,      \* per test: calls of session.request
    nResult,    \* per test: calls of Manage.create_result
    nWrite,     \* per test: calls of ExcelPack.write_to_excel
    lastWrite,  \* arguments and fate of the latest write_to_excel call
    outcome,    \* per test: what pytest reports (none/passed/failed/skipped)
    oside,      \* order script: the operation chosen ("buy" / "sell")
    ocount,     \* order script: the execution count entered
    results,    \* order script: local `results` of execute_*_orders
    posts,      \* order script: the session.post calls made, with their fate
    summary,    \* order script: what _show_summary reported
    ophase      \* order script: idle / loop / done / raised

evars == <<sheet, df, tests, pc, result, response, transport, sent, nSession,
           nSend, nHttp, nResult, nWrite, lastWrite, outcome>>
ovars == <<oside, ocount, results, posts, summary, ophase>>
vars == <<evars, ovars>>

-----------------------------------------------------------------------------
\* Bounds of the model.
MaxRows == 3        \* data rows of the workbook (below the header row)
MaxYaml == 2        \* entries of the YAML document's "Case" list
MaxCount == 3       \* largest execution count of the order script

-----------------------------------------------------------------------------
\* Python values.
Str(s)  == [t |-> "str", v |-> s]
IntV(s) == [t |-> "int", v |-> s]
NaN     == [t |-> "nan", v |-> <<>>]
NoneV   == [t |-> "none", v |-> <<>>]
Dict(s) == [t |-> "dict", v |-> s]     \* v = <<key, type, text, key, type, text, ...>>
List(s) == [t |-> "list", v |-> s]
Empty   == Str(<<>>)

\* Python ==
PyEq(a, b) == a.t = b.t /\ a.v = b.v

\* str.lower, symbol by symbol
LowerSym(c) ==
    CASE c = "Y" -> "y" [] c = "E" -> "e" [] c = "S" -> "s"
      [] c = "N" -> "n" [] c = "O" -> "o" [] OTHER -> c
Lower(s) == [i \in 1..Len(s) |-> LowerSym(s[i])]

\* str.strip: drop leading and trailing whitespace
RECURSIVE LStrip(_)
LStrip(s) == IF s # <<>> /\ Head(s) = " " THEN LStrip(Tail(s)) ELSE s
RECURSIVE RStrip(_)
RStrip(s) == IF s # <<>> /\ s[Len(s)] = " " THEN RStrip(SubSeq(s, 1, Len(s) - 1)) ELSE s
Strip(s) == RStrip(LStrip(s))

\* Python `a in b` on str
IsSubstring(a, b) ==
    \E i \in 0..(Len(b) - Len(a)) : SubSeq(b, i + 1, i + Len(a)) = a

\* repr of one dict item value / key
Quote(s) == <<"'">> \o s \o <<"'">>
RECURSIVE DictItems(_)
DictItems(p) ==
    IF p = <<>> THEN <<>>
    ELSE Quote(<<p[1]>>) \o <<": ">>
         \o (IF p[2] = "str" THEN Quote(<<p[3]>>) ELSE <<p[3]>>)
         \o (IF Len(p) > 3 THEN <<", ">> ELSE <<>>)
         \o DictItems(SubSeq(p, 4, Len(p)))
RECURSIVE ListItems(_)
ListItems(p) ==
    IF p = <<>> THEN <<>>
    ELSE <<p[1]>> \o (IF Len(p) > 1 THEN <<", ">> ELSE <<>>) \o ListItems(Tail(p))

\* Python str(x)
PyStr(x) ==
    CASE x.t = "str"  -> x.v
      [] x.t = "int"  -> x.v
      [] x.t = "nan"  -> <<"nan">>
      [] x.t = "none" -> <<"None">>
      [] x.t = "dict" -> <<"{">> \o DictItems(x.v) \o <<"}">>
      [] x.t = "list" -> <<"[">> \o ListItems(x.v) \o <<"]">>
      [] x.t = "summary" ->
            <<"{'code': ">> \o x.code.v \o <<", 'body': ">> \o Quote(x.body.v)
            \o <<", 'time_total': ", "T", "}">>

DictHas(d, key) == \E i \in 1..(Len(d.v) \div 3) : d.v[3 * i - 2] = key
DictGet(d, key) ==
    LET i == CHOOSE j \in 1..(Len(d.v) \div 3) : d.v[3 * j - 2] = key
    IN  [t |-> d.v[3 * i - 1], v |-> <<d.v[3 * i]>>]

-----------------------------------------------------------------------------
\* ExcelPack: the column schema and the styles.
COLUMNS ==
    [name |-> 0, run |-> 1, token |-> 2, url |-> 3, data |-> 4, method |-> 5,
     type |-> 6, header |-> 7, status_code |-> 8, expect_msg |-> 9,
     expect_data |-> 10, result |-> 11, response |-> 12]
ColNames == DOMAIN COLUMNS
NCols    == Cardinality(ColNames)

STYLES == [pass |-> "00FF00", fail |-> "FF0000", skip |-> "800080"]

DefaultFont == [bold |-> FALSE, color |-> "000000"]
Font(b, c)  == [bold |-> b, color |-> c]
Cell(val, font) == [value |-> val, font |-> font]
Plain(val)  == Cell(val, DefaultFont)

\* Column name of a 0-based column index.
ColName(i) == CHOOSE n \in ColNames : COLUMNS[n] = i

-----------------------------------------------------------------------------
\* The workbook.  Physical rows and columns are 1-based (openpyxl); row 1 is
\* the header row.  A row is given here by column name and laid out by COLUMNS.
RowOf(r) == [c \in 1..NCols |-> r[ColName(c - 1)]]

HeaderRow == RowOf([n \in ColNames |-> Plain(Str(<<n>>))])

HeaderLiteral == <<"{", "'", "X", "'", ": ", "'", "1", "'", "}">>

\* The text 'yes', character by character.
Yes == <<"y", "e", "s">>

\* Authored rows the workbook is drawn from.
RowA ==
    [name |-> Plain(Str(<<"A">>)), run |-> Plain(Str(Yes)),
     token |-> Plain(Str(Yes)), url |-> Plain(Str(<<"/u">>)),
     data |-> Plain(NaN), method |-> Plain(Str(<<"GET">>)),
     type |-> Plain(Str(<<"json">>)), header |-> Plain(NaN),
     status_code |-> Plain(IntV(<<"200">>)), expect_msg |-> Plain(Str(<<"ok">>)),
     expect_data |-> Plain(Str(<<"ok">>)),
     result |-> Plain(NaN), response |-> Plain(NaN)]
RowB ==
    [name |-> Plain(Str(<<"B">>)), run |-> Plain(Str(<<"Y", "E", "S", " ">>)),
     token |-> Plain(Str(<<"no">>)), url |-> Plain(Str(<<"/u">>)),
     data |-> Plain(Str(HeaderLiteral)), method |-> Plain(Str(<<"POST">>)),
     type |-> Plain(Str(<<"xml">>)), header |-> Plain(Str(HeaderLiteral)),
     status_code |-> Plain(Str(<<"404">>)), expect_msg |-> Plain(Str(<<"ok">>)),
     expect_data |-> Plain(NaN),
     result |-> Cell(Str(<<"pass">>), Font(TRUE, STYLES["pass"])),
     response |-> Cell(Str(<<"old">>), Font(TRUE, "0000FF"))]
RowC ==
    [name |-> Plain(Str(<<"C">>)), run |-> Plain(Str(<<"n", "o">>)),
     token |-> Plain(NaN), url |-> Plain(Str(<<"/u">>)),
     data |-> Plain(NaN), method |-> Plain(Str(<<"GET">>)),
     type |-> Plain(Str(<<"params">>)), header |-> Plain(NaN),
     status_code |-> Plain(IntV(<<"200">>)), expect_msg |-> Plain(Str(<<"ok">>)),
     expect_data |-> Plain(Str(<<"ok">>)),
     result |-> Cell(Str(<<"fail">>), Font(TRUE, STYLES["fail"])),
     response |-> Plain(Str(<<"old">>))]
RowD ==
    [name |-> Plain(Str(<<"A">>)), run |-> Plain(Str(<<"Y", "e", "s">>)),
     token |-> Plain(Str(Yes)), url |-> Plain(Str(<<"/v">>)),
     data |-> Plain(NaN), method |-> Plain(Str(<<"GET">>)),
     type |-> Plain(Str(<<"params">>)), header |-> Plain(Str(HeaderLiteral)),
     status_code |-> Plain(IntV(<<"200">>)), expect_msg |-> Plain(Str(<<"ok">>)),
     expect_data |-> Plain(NaN),
     result |-> Plain(NaN), response |-> Plain(NaN)]
\* A row whose header cell is a truncated literal: eval() of it is a
\* SyntaxError.
TruncatedLiteral == <<"{", "'", "X", "'", ": ">>
RowE ==
    [name |-> Plain(Str(<<"E">>)), run |-> Plain(Str(Yes)),
     token |-> Plain(Str(<<"no">>)), url |-> Plain(Str(<<"/u">>)),
     data |-> Plain(NaN), method |-> Plain(Str(<<"GET">>)),
     type |-> Plain(Str(<<"json">>)), header |-> Plain(Str(TruncatedLiteral)),
     status_code |-> Plain(IntV(<<"200">>)), expect_msg |-> Plain(Str(<<"ok">>)),
     expect_data |-> Plain(Str(<<"ok">>)),
     result |-> Plain(NaN), response |-> Plain(NaN)]
AuthoredRows == {RowA, RowB, RowC, RowD, RowE}

MakeSheet(rows) ==
    [r \in 1..(Len(rows) + 1) |-> IF r = 1 THEN HeaderRow ELSE RowOf(rows[r - 1])]
\* The loader never reads the first data row (its loop starts at DataFrame
\* index 1), so that row only matters as content a write must preserve and as
\* a row that would not parse: it is drawn from FirstRows.
FirstRows == {RowB, RowE}
Sheets ==
    {MakeSheet(rows) : rows \in {f \in [1..MaxRows -> AuthoredRows] : f[1] \in FirstRows}}

\* Variant: read_excel(..., header=None), the header row read as data row 0.
ReadExcel_NoHeader(ws) ==
    [r \in 0..(Len(ws) - 1) |-> [c \in 0..(NCols - 1) |-> ws[r + 1][c + 1].value]]

\* pd.read_excel: the first physical row names the columns, every later
\* physical row p becomes DataFrame row p - 2; fonts are not read.
ReadExcel(ws) ==
    [r \in 0..(Len(ws) - 2) |-> [c \in 0..(NCols - 1) |-> ws[r + 2][c + 1].value]]
DfLen(d) == Cardinality(DOMAIN d)

\* ExcelPack._get_cell_value
get_cell_value(d, row, col_name) ==
    LET value == d[row][COLUMNS[col_name]]
    IN  IF value.t # "nan" THEN Str(Strip(PyStr(value))) ELSE Empty

-----------------------------------------------------------------------------
\* Process-wide configuration (common/consts.py).
API_HOST == <<"HOST">>
TOKEN    == <<"TOKEN">>

\* eval() of a header / data cell: the cell holds a dict literal
\*   { 'k': 'v', 'k': n, ... }
\* or a truncated one, which is a SyntaxError; raised reports the exception.
IsQuoted(p, i) == i + 2 <= Len(p) /\ p[i] = "'" /\ p[i + 2] = "'"
RECURSIVE ParseItems(_)
ParseItems(p) ==
    IF p = <<>> THEN [ok |-> TRUE, v |-> <<>>]
    ELSE IF ~(Len(p) >= 5 /\ IsQuoted(p, 1) /\ p[4] = ": ")
    THEN [ok |-> FALSE, v |-> <<>>]
    ELSE LET isStr == IsQuoted(p, 5)
             last  == IF isStr THEN 7 ELSE 5
             item  == <<p[2], IF isStr THEN "str" ELSE "int", IF isStr THEN p[6] ELSE p[5]>>
             more  == Len(p) > last
         IN  IF more /\ (p[last + 1] # ", " \/ Len(p) = last + 1)
             THEN [ok |-> FALSE, v |-> <<>>]
             ELSE LET rest == ParseItems(SubSeq(p, last + 2, Len(p)))
                  IN  [ok |-> rest.ok, v |-> item \o rest.v]
Eval(s) ==
    IF Len(s) >= 2 /\ s[1] = "{" /\ s[Len(s)] = "}"
    THEN LET items == ParseItems(SubSeq(s, 2, Len(s) - 1))
         IN  [raised |-> ~items.ok, val |-> Dict(items.v)]
    ELSE [raised |-> TRUE, val |-> NoneV]

\* d[key] = value on a dict
DictSet(d, key, type, text) ==
    IF DictHas(d, key)
    THEN Dict([i \in 1..Len(d.v) |->
                 IF i % 3 = 2 /\ d.v[i - 1] = key THEN type
                 ELSE IF i % 3 = 0 /\ d.v[i - 2] = key THEN text
                 ELSE d.v[i]])
    ELSE Dict(d.v \o <<key, type, text>>)

\* Variant: the rows with an empty header cell share one dict object, so an
\* injection into it shows in every one of them.
HeadersOfRow_SharedDefault(d, row) ==
    LET cell == get_cell_value(d, row, "header")
        base == IF cell.v # <<>> THEN Eval(cell.v) ELSE [raised |-> FALSE, val |-> Dict(<<>>)]
        own  == get_cell_value(d, row, "token") = Str(Yes)
        any  == \E r \in 1..(Cardinality(DOMAIN d) - 1) :
                   /\ get_cell_value(d, r, "header").v = <<>>
                   /\ get_cell_value(d, r, "token") = Str(Yes)
    IN  IF base.raised THEN base
        ELSE IF own \/ (cell.v = <<>> /\ any)
        THEN [raised |-> FALSE, val |-> DictSet(base.val, "Authorization", "str", TOKEN[1])]
        ELSE base

\* Variant: the headers of a row without the injection of the shared token.
HeadersOfRow_NoInject(d, row) ==
    LET cell == get_cell_value(d, row, "header")
    IN  IF cell.v # <<>> THEN Eval(cell.v) ELSE [raised |-> FALSE, val |-> Dict(<<>>)]

\* ExcelPack.load_test_cases: the body of the loop for one DataFrame row.
HeadersOfRow(d, row) ==
    LET cell == get_cell_value(d, row, "header")
        base == IF cell.v # <<>> THEN Eval(cell.v) ELSE [raised |-> FALSE, val |-> Dict(<<>>)]
    IN  IF base.raised THEN base
        ELSE IF get_cell_value(d, row, "token") = Str(Yes)
        THEN [raised |-> FALSE, val |-> DictSet(base.val, "Authorization", "str", TOKEN[1])]
        ELSE base
DataOfRow(d, row) ==
    LET cell == get_cell_value(d, row, "data")
    IN  IF cell.v # <<>> THEN Eval(cell.v) ELSE [raised |-> FALSE, val |-> NoneV]
CaseOfRow(d, row) ==
    [name    |-> Str(PyStr(get_cell_value(d, row, "name"))),
     run     |-> get_cell_value(d, row, "run"),
     token   |-> get_cell_value(d, row, "token"),
     type    |-> get_cell_value(d, row, "type"),
     request |-> [url     |-> Str(API_HOST \o get_cell_value(d, row, "url").v),
                  method  |-> get_cell_value(d, row, "method"),
                  headers |-> HeadersOfRow(d, row).val,
                  data    |-> DataOfRow(d, row).val],
     expected |-> [status_code |-> get_cell_value(d, row, "status_code"),
                   msg         |-> get_cell_value(d, row, "expect_msg"),
                   data        |-> get_cell_value(d, row, "expect_data")],
     result  |-> [result   |-> get_cell_value(d, row, "result"),
                  response |-> get_cell_value(d, row, "response")],
     row     |-> row]

\* ExcelPack.load_test_cases: rows range(1, len(df)), in order; an eval that
\* raises aborts the whole load.
LoadRange(d) == 1..(DfLen(d) - 1)
Malformed(d, row) == HeadersOfRow(d, row).raised \/ DataOfRow(d, row).raised
load_test_cases(d) ==
    IF \E row \in LoadRange(d) : Malformed(d, row)
    THEN [raised |-> TRUE, cases |-> <<>>]
    ELSE [raised |-> FALSE, cases |-> [row \in LoadRange(d) |-> CaseOfRow(d, row)]]

-----------------------------------------------------------------------------
\* YamlPack.  The document is a "Case" list of one-key mappings; the text is
\* run through string.Template.substitute({host, token}) before it is parsed.
SubstituteSym(c) ==
    CASE c = "${host}" -> API_HOST[1] [] c = "${token}" -> TOKEN[1] [] OTHER -> c
Substitute(s) == [i \in 1..Len(s) |-> SubstituteSym(s[i])]
SubstituteCase(c) ==
    [c EXCEPT !.request.url = Str(Substitute(c.request.url.v)),
              !.request.headers = Dict(Substitute(c.request.headers.v))]

YamlTestYes ==
    [name |-> Str(<<"Y1">>), run |-> Str(Yes), type |-> Str(<<"json">>),
     request |-> [url |-> Str(<<"${host}", "/u">>), method |-> Str(<<"GET">>),
                  headers |-> Dict(<<"Authorization", "str", "${token}">>),
                  data |-> NoneV],
     expected |-> [status_code |-> IntV(<<"200">>), msg |-> Str(<<"ok">>),
                   data |-> Str(<<"ok">>)]]
YamlTestNo    == [YamlTestYes EXCEPT !.name = Str(<<"Y2">>), !.run = Str(<<"n", "o">>)]
YamlTestSpace ==
    [YamlTestYes EXCEPT !.name = Str(<<"Y3">>), !.run = Str(Yes \o <<" ">>),
                        !.expected.status_code = Str(<<"200">>)]
YamlTestUpper ==
    [YamlTestYes EXCEPT !.name = Str(<<"Y4">>), !.run = Str(<<"Y", "E", "S">>),
                        !.type = Str(<<"data">>)]
\* A Test leaf written without the key 'run'.
Missing == [t |-> "missing", v |-> <<>>]
YamlTestNoRun == [YamlTestYes EXCEPT !.name = Str(<<"Y5">>), !.run = Missing]
YamlEntries ==
    {[key |-> "Test", val |-> YamlTestYes], [key |-> "Test", val |-> YamlTestNo],
     [key |-> "Test", val |-> YamlTestSpace], [key |-> "Test", val |-> YamlTestUpper],
     [key |-> "Test", val |-> YamlTestNoRun], [key |-> "Suite", val |-> YamlTestYes]}
YamlDocs == {[Case |-> es] : es \in [1..MaxYaml -> YamlEntries]}

\* YamlPack.__init__: substitute, then parse.
YamlData(doc) ==
    [Case |-> [i \in 1..Len(doc.Case) |->
                 [key |-> doc.Case[i].key, val |-> SubstituteCase(doc.Case[i].val)]]]

\* YamlPack.load_test_cases: the values under the key "Test", in document order.
RECURSIVE TestsOf(_)
TestsOf(entries) ==
    IF entries = <<>> THEN <<>>
    ELSE (IF Head(entries).key = "Test" THEN <<Head(entries).val>> ELSE <<>>)
         \o TestsOf(Tail(entries))
yaml_load_test_cases(data) == TestsOf(data.Case)

-----------------------------------------------------------------------------
\* What the network does with one HTTP request: an answer (status code and
\* body), or an exception raised inside session.request.
JsonOk    == Dict(<<"msg", "str", "ok", "id", "int", "1">>)
JsonNotFound == Dict(<<"msg", "str", "not found">>)
JsonList  == List(<<"1">>)
Answer(status, parses, json) ==
    [kind |-> "answer", status |-> status, parses |-> parses, json |-> json]
Failure(kind) == [kind |-> kind, status |-> <<>>, parses |-> FALSE, json |-> NoneV]
Transports ==
    {Answer(<<"200">>, TRUE, JsonOk), Answer(<<"404">>, TRUE, JsonNotFound),
     Answer(<<"200">>, TRUE, JsonList), Answer(<<"200">>, FALSE, NoneV),
     Failure("timeout"), Failure("refused"), Failure("dns"), Failure("silent")}
NoRes  == Failure("none")      \* res = None
Unsent == Failure("unsent")    \* no HTTP request was made
Idle   == Failure("idle")      \* no test is being executed

\* Requests.send_request: res is the requests.Response or None; http counts
\* the session.request calls; the try/except lets nothing escape.
PayloadModes == {<<"params">>, <<"data">>, <<"json">>, <<"file">>}
\* Requests.__init__: self.session = requests.Session(), one per object.
NewRequests == 1
NoRequest == [sent |-> FALSE]
Wire(request_data) ==
    [sent |-> TRUE, method |-> request_data.method, url |-> request_data.url,
     headers |-> request_data.headers, payload |-> request_data.data,
     mode |-> request_data.data_type, timeout |-> NoneV]
\* session.request with no timeout waits for ever for a server that accepted
\* the connection and never answers.
Hangs(wire, tr) == tr.kind = "silent" /\ wire.timeout.t = "none"
\* Variant: a payload mode that is not recognised is sent like 'data'.
send_request_DefaultMode(request_data, tr) ==
    [res |-> IF tr.kind = "answer" THEN tr ELSE NoRes, http |-> 1,
     wire |-> Wire(request_data), raised |-> FALSE,
     blocked |-> Hangs(Wire(request_data), tr)]

\* Variant: a request that got no answer is sent a second time.
send_request_Retry(request_data, tr) ==
    IF request_data.data_type.v \in PayloadModes
    THEN [res |-> IF tr.kind = "answer" THEN tr ELSE NoRes,
          http |-> IF tr.kind = "answer" THEN 1 ELSE 2,
          wire |-> Wire(request_data), raised |-> FALSE,
          blocked |-> Hangs(Wire(request_data), tr)]
    ELSE [res |-> NoRes, http |-> 0, wire |-> NoRequest, raised |-> FALSE,
          blocked |-> FALSE]

send_request(request_data, tr) ==
    IF request_data.data_type.v \in PayloadModes
    THEN [res |-> IF tr.kind = "answer" THEN tr ELSE NoRes, http |-> 1,
          wire |-> Wire(request_data), raised |-> FALSE,
          blocked |-> Hangs(Wire(request_data), tr)]
    ELSE [res |-> NoRes, http |-> 0, wire |-> NoRequest, raised |-> FALSE,
          blocked |-> FALSE]

\* Response.result: the summary dict, or None when anything in it raised.
NoSummary == [t |-> "none", code |-> NoneV, body |-> NoneV]
Response_result(res) ==
    IF res.kind # "answer" THEN NoSummary
    ELSE IF ~res.parses THEN NoSummary
    ELSE [t |-> "summary", code |-> IntV(res.status), body |-> Str(PyStr(res.json))]

-----------------------------------------------------------------------------
\* Manage.
Pass == Str(<<"pass">>)
Fail == Str(<<"fail">>)
Skip == Str(<<"skip">>)

create_result(name, status, resp) == [name |-> name, result |-> status, response |-> resp]
NoResult == create_result(NoneV, NoneV, NoneV)

\* obj[key] with a str key: the value, or the exception text.
Raise(text) == [raised |-> TRUE, err |-> text, val |-> NoneV]
Value(x)    == [raised |-> FALSE, err |-> <<>>, val |-> x]
Subscript(obj, key) ==
    CASE obj.t = "none" -> Raise(<<"'NoneType' object is not subscriptable">>)
      [] obj.t = "str"  -> Raise(<<"string indices must be integers">>)
      [] obj.t = "list" -> Raise(<<"list indices must be integers or slices, not str">>)
      [] obj.t = "dict" -> IF DictHas(obj, key) THEN Value(DictGet(obj, key))
                           ELSE Raise(Quote(<<key>>))
      [] obj.t = "summary" -> Value(obj[key])
      [] OTHER -> Raise(<<"object is not subscriptable">>)

\* case['expected']['status_code'] == response['code']
status_code_check(case, code) == PyEq(case.expected.status_code, code)

\* case['expected']['data'] in str(response['body'])
data_check(case, body) == IsSubstring(case.expected.data.v, PyStr(body))

\* The list validation_results of execute_test_case, evaluated left to right.
Checks(raised, err, list) == [raised |-> raised, err |-> err, list |-> list]
validation_results(case, resp) ==
    LET code == Subscript(resp, "code")
        body == Subscript(resp, "body")
    IN  IF code.raised THEN Checks(TRUE, code.err, <<>>)
        ELSE IF body.raised THEN Checks(TRUE, body.err, <<>>)
        ELSE LET msg == Subscript(body.val, "msg")
             IN  IF msg.raised THEN Checks(TRUE, msg.err, <<>>)
                 ELSE IF case.expected.data.t # "str"
                 THEN Checks(TRUE, <<"'in <string>' requires string as left operand">>, <<>>)
                 ELSE Checks(FALSE, <<>>,
                             <<status_code_check(case, code.val),
                               PyEq(case.expected.msg, msg.val),
                               data_check(case, body.val)>>)

\* The text in front of str(e) in the except branch.
ErrorPrefix == <<"execute_test_case exception: ">>

\* Variant: no try/except around dispatch and validation.
execute_test_case_NoCatch(case, tr) ==
    LET request_data == [url |-> case.request.url, method |-> case.request.method,
                         data |-> case.request.data, headers |-> case.request.headers,
                         data_type |-> case.type]
        dispatch == send_request(request_data, tr)
        resp   == Response_result(dispatch.res)
        checks == validation_results(case, resp)
    IN  [result   |-> create_result(case.name, Fail, resp),
         response |-> resp,
         wire     |-> dispatch.wire,
         http     |-> dispatch.http,
         sessions |-> NewRequests,
         blocked  |-> dispatch.blocked,
         raised   |-> checks.raised]

\* Manage.execute_test_case, with the network's behaviour tr as input.
\* Requests() in it constructs a new object, and with it a new session.
execute_test_case(case, tr) ==
    LET request_data == [url |-> case.request.url, method |-> case.request.method,
                         data |-> case.request.data, headers |-> case.request.headers,
                         data_type |-> case.type]
        dispatch == send_request(request_data, tr)
        resp   == Response_result(dispatch.res)
        checks == validation_results(case, resp)
        status == IF \A i \in 1..Len(checks.list) : checks.list[i] THEN Pass ELSE Fail
    IN  [result   |-> IF checks.raised
                      THEN create_result(case.name, Fail, Str(ErrorPrefix \o checks.err))
                      ELSE create_result(case.name, status, resp),
         response |-> resp,
         wire     |-> dispatch.wire,
         http     |-> dispatch.http,
         sessions |-> NewRequests,
         blocked  |-> dispatch.blocked,
         raised   |-> FALSE]

-----------------------------------------------------------------------------
\* ExcelPack write-back.  A store is the cached DataFrame with the workbook.
\* Variant: the font of the written cell is given to its whole row.
SetCell_StyleRow(ws, r, c, cell) ==
    [ws EXCEPT ![r] = [k \in DOMAIN ws[r] |->
                         IF k = c THEN cell ELSE Cell(ws[r][k].value, cell.font)]]

BlankRow == [c \in 1..NCols |-> Plain(NaN)]
SetCell(ws, r, c, cell) ==
    LET grown == [i \in 1..(IF r > Len(ws) THEN r ELSE Len(ws)) |->
                    IF i <= Len(ws) THEN ws[i] ELSE BlankRow]
    IN  [grown EXCEPT ![r][c] = cell]

\* Variant: the new text is appended to what the cell holds.
write_cell_Append(st, row, col_name, value, style, saved) ==
    LET col  == COLUMNS[col_name]
        old  == st.sheet[row + 2][col + 1]
        text == Str(PyStr(old.value) \o PyStr(value))
    IN  IF ~saved
        THEN [df |-> [st.df EXCEPT ![row][col] = text], sheet |-> st.sheet, raised |-> TRUE]
        ELSE [df |-> [st.df EXCEPT ![row][col] = text],
              sheet |-> [st.sheet EXCEPT ![row + 2][col + 1] = Cell(text, old.font)],
              raised |-> FALSE]

\* The font the styled write gives the cell.
\* Variant: every style key gives the colour of 'fail'.
StyledFont_OneColour(old, style) ==
    IF style.t = "str" /\ style.v # <<>> /\ Len(style.v) = 1 /\ style.v[1] \in DOMAIN STYLES
    THEN Font(TRUE, STYLES["fail"])
    ELSE old

StyledFont(old, style) ==
    IF style.t = "str" /\ style.v # <<>> /\ Len(style.v) = 1 /\ style.v[1] \in DOMAIN STYLES
    THEN Font(TRUE, STYLES[style.v[1]])
    ELSE old

\* ExcelPack._write_cell; saved = FALSE when load_workbook or save raises
\* (file locked, directory missing): the DataFrame is already updated then.
write_cell(st, row, col_name, value, style, saved) ==
    LET col  == COLUMNS[col_name]
        d2   == [st.df EXCEPT ![row][col] = value]
        prow == row + 2
        pcol == col + 1
        old  == IF prow <= Len(st.sheet) THEN st.sheet[prow][pcol] ELSE Plain(NaN)
        cell == Cell(value, StyledFont(old.font, style))
    IN  IF row \notin DOMAIN st.df
        THEN [df |-> st.df, sheet |-> st.sheet, raised |-> TRUE]
        ELSE IF ~saved
        THEN [df |-> d2, sheet |-> st.sheet, raised |-> TRUE]
        ELSE [df |-> d2, sheet |-> SetCell(st.sheet, prow, pcol, cell), raised |-> FALSE]

\* Variant: write_to_excel without its try/except.
write_to_excel_NoCatch(st, row, res, failAt) ==
    LET w1 == write_cell(st, row, "response", Str(PyStr(res.response)), NoneV,
                         failAt # "response")
        w2 == write_cell(w1, row, "result", res.result, res.result, failAt # "result")
    IN  IF w1.raised
        THEN [df |-> w1.df, sheet |-> w1.sheet, failed |-> TRUE, raised |-> TRUE,
              returned |-> NoneV]
        ELSE [df |-> w2.df, sheet |-> w2.sheet, failed |-> w2.raised, raised |-> w2.raised,
              returned |-> NoneV]

\* ExcelPack.write_to_excel; failAt names the _write_cell call that raises.
\* The function has no return statement: it returns None on every path.
FailPoints == {"none", "response", "result"}
write_to_excel(st, row, res, failAt) ==
    LET w1 == write_cell(st, row, "response", Str(PyStr(res.response)), NoneV,
                         failAt # "response")
        w2 == write_cell(w1, row, "result", res.result, res.result, failAt # "result")
    IN  IF w1.raised
        THEN [df |-> w1.df, sheet |-> w1.sheet, failed |-> TRUE, raised |-> FALSE,
              returned |-> NoneV]
        ELSE [df |-> w2.df, sheet |-> w2.sheet, failed |-> w2.raised, raised |-> FALSE,
              returned |-> NoneV]

-----------------------------------------------------------------------------
\* The order script (pachong/api).  What the network does with one
\* session.post: a response, or an exception raised inside the call.
Resp(status, parses, json, text) ==
    [kind |-> "response", status |-> status, parses |-> parses, json |-> json,
     text |-> text, msg |-> <<>>]
Exc(kind, msg) ==
    [kind |-> kind, status |-> 0, parses |-> FALSE, json |-> NoneV, text |-> <<>>,
     msg |-> msg]
PostOutcomes ==
    {Resp(200, TRUE, Dict(<<"code", "int", "0">>), <<>>),
     Resp(200, FALSE, NoneV, <<"OK">>),
     Resp(201, TRUE, Dict(<<"code", "int", "0">>), <<>>),
     Resp(404, TRUE, Dict(<<"message", "str", "no such order">>), <<>>),
     Resp(500, FALSE, NoneV, <<"oops">>),
     Exc("Timeout", <<"read timed out">>),
     Exc("ConnectionError", <<"refused">>),
     Exc("Other", <<"boom">>),
     Exc("Other", <<>>)}

\* models.OrderResult
OrderResult(success, status_code, response_data, error_message) ==
    [success |-> success, status_code |-> status_code,
     response_data |-> response_data, error_message |-> error_message]

\* The fixed texts of the two named except branches of post_order.
TimeoutText    == <<"request timed out">>
ConnectionText == <<"connection failed">>

\* Variant: post_order without its last, catch-all except branch.
post_order_NoCatchAll(data, net) ==
    IF net.kind = "response"
    THEN LET response_data == IF net.parses THEN net.json ELSE Str(net.text)
             success == net.status = 200
             message == IF response_data.t = "dict" /\ DictHas(response_data, "message")
                        THEN <<": ">> \o DictGet(response_data, "message").v
                        ELSE <<>>
             error_message == IF success THEN <<>>
                              ELSE <<"HTTP ", ToString(net.status)>> \o message
         IN  [raised |-> FALSE,
              result |-> OrderResult(success, net.status, response_data, error_message)]
    ELSE IF net.kind = "Timeout"
    THEN [raised |-> FALSE, result |-> OrderResult(FALSE, 0, Str(<<>>), TimeoutText)]
    ELSE IF net.kind = "ConnectionError"
    THEN [raised |-> FALSE, result |-> OrderResult(FALSE, 0, Str(<<>>), ConnectionText)]
    ELSE [raised |-> TRUE, result |-> OrderResult(FALSE, 0, Str(<<>>), net.msg)]

\* HTTPClient.post_order, with the network's behaviour net as input.  The
\* message of the catch-all branch is str(e), whatever the exception holds.
post_order(data, net) ==
    IF net.kind = "response"
    THEN LET response_data == IF net.parses THEN net.json ELSE Str(net.text)
             success == net.status = 200
             message == IF response_data.t = "dict" /\ DictHas(response_data, "message")
                        THEN <<": ">> \o DictGet(response_data, "message").v
                        ELSE <<>>
             error_message == IF success THEN <<>>
                              ELSE <<"HTTP ", ToString(net.status)>> \o message
         IN  [raised |-> FALSE,
              result |-> OrderResult(success, net.status, response_data, error_message)]
    ELSE IF net.kind = "Timeout"
    THEN [raised |-> FALSE, result |-> OrderResult(FALSE, 0, Str(<<>>), TimeoutText)]
    ELSE IF net.kind = "ConnectionError"
    THEN [raised |-> FALSE, result |-> OrderResult(FALSE, 0, Str(<<>>), ConnectionText)]
    ELSE [raised |-> FALSE, result |-> OrderResult(FALSE, 0, Str(<<>>), net.msg)]

\* OrderGenerator and OrderData.to_form_data, for the fields that differ
\* between a buy and a sell order.
generate_buy_order  == [side |-> "BUY_OPEN", order_side |-> "BUY", quantity |-> 3]
generate_sell_order == [side |-> "SELL_OPEN", order_side |-> "SELL", quantity |-> 4]
to_form_data(order) ==
    [side |-> order.side, order_side |-> order.order_side,
     quantity |-> <<ToString(order.quantity), ".0">>]

\* OrderExecutor._execute_single_order
execute_single_order(order_data, net) == post_order(to_form_data(order_data), net)

\* OrderExecutor._show_summary
show_summary(rs) ==
    LET total == Len(rs)
        success_count == Cardinality({i \in 1..Len(rs) : rs[i].success})
    IN  [shown |-> TRUE, total |-> total, success |-> success_count,
         failure |-> total - success_count]
NoSummaryShown == [shown |-> FALSE, total |-> 0, success |-> 0, failure |-> 0]

\* The order script is not running.
OrderIdle ==
    /\ oside = "none" /\ ocount = 0 /\ results = <<>> /\ posts = <<>>
    /\ summary = NoSummaryShown /\ ophase = "idle"

-----------------------------------------------------------------------------
\* The pytest run.  Collection has imported test_api.py, so the workbook is
\* read and cached and both case lists are loaded; the run then executes the
\* parametrized tests of the selected test function, one after another.
\* Variant: the parametrized tests taken in reverse order of the case list.
ExcelTests_Reversed(cases) ==
    [i \in 1..Len(cases) |-> [fn |-> "excel", case |-> cases[Len(cases) + 1 - i]]]
ExcelTests(cases) == [i \in 1..Len(cases) |-> [fn |-> "excel", case |-> cases[i]]]
YamlTests(cases)  == [i \in 1..Len(cases) |-> [fn |-> "yaml", case |-> cases[i]]]

Zero(ts) == [k \in 1..Len(ts) |-> 0]
NoWrite  == [k |-> 0, row |-> 0, result |-> NoResult, failAt |-> "none", failed |-> FALSE,
             returned |-> NoneV, raised |-> FALSE]

Init ==
    /\ sheet \in Sheets
    /\ df = ReadExcel(sheet)
    /\ LET load == load_test_cases(df)
       IN  IF load.raised
           THEN tests = <<>>
           ELSE \/ tests = ExcelTests(load.cases)
                \/ \E doc \in YamlDocs :
                      tests = YamlTests(yaml_load_test_cases(YamlData(doc)))
    /\ pc = [k |-> 1, step |-> "begin"]
    /\ result = NoResult
    /\ response = NoSummary
    /\ transport = Idle
    /\ sent = NoRequest
    /\ nSession = 0
    /\ nSend = Zero(tests)
    /\ nHttp = Zero(tests)
    /\ nResult = Zero(tests)
    /\ nWrite = Zero(tests)
    /\ lastWrite = NoWrite
    /\ outcome = [k \in 1..Len(tests) |-> "none"]
    /\ OrderIdle

Running  == pc.k \in 1..Len(tests)
Current  == tests[pc.k]
\* Variant: the run flag compared without .lower().
NotRun_CaseSensitive(case) == case.run.v # Yes

\* case['run'].lower() != 'yes'
NotRun(case) == Lower(case.run.v) # Yes

NextTest == [k |-> pc.k + 1, step |-> "begin"]
Finish(verdict) ==
    /\ outcome' = [outcome EXCEPT ![pc.k] = verdict]
    /\ pc' = NextTest
    /\ result' = NoResult
    /\ response' = NoSummary
    /\ transport' = Idle
    /\ sent' = NoRequest

\* Variant: the skip branch of test_excel_api without the write-back (as in
\* test_yaml_api).
ExcelSkip_NoWrite ==
    /\ Running /\ pc.step = "begin" /\ Current.fn = "excel"
    /\ NotRun(Current.case)
    /\ Finish("skipped")
    /\ UNCHANGED ovars
    /\ UNCHANGED <<sheet, df, tests, nSession, nSend, nHttp, nResult, nWrite, lastWrite>>

\* test_excel_api, the skip branch: create the skip result, write it back,
\* pytest.skip().
ExcelSkip ==
    /\ Running /\ pc.step = "begin" /\ Current.fn = "excel"
    /\ NotRun(Current.case)
    /\ \E failAt \in FailPoints :
         LET res == create_result(Current.case.name, Skip, NoneV)
             w   == write_to_excel([df |-> df, sheet |-> sheet], Current.case.row, res, failAt)
         IN  /\ df' = w.df
             /\ sheet' = w.sheet
             /\ lastWrite' = [k |-> pc.k, row |-> Current.case.row, result |-> res,
                              failAt |-> failAt, failed |-> w.failed,
                              returned |-> w.returned, raised |-> w.raised]
             /\ Finish(IF w.raised THEN "error" ELSE "skipped")
    /\ nResult' = [nResult EXCEPT ![pc.k] = @ + 1]
    /\ nWrite' = [nWrite EXCEPT ![pc.k] = @ + 1]
    /\ UNCHANGED ovars
    /\ UNCHANGED <<tests, nSession, nSend, nHttp>>

\* case['run'] on a case that has the key.
HasRun(case) == case.run.t # "missing"

\* test_yaml_api on a case without the key 'run': case['run'] raises KeyError
\* in the test body, outside execute_test_case.
YamlKeyError ==
    /\ Running /\ pc.step = "begin" /\ Current.fn = "yaml"
    /\ ~HasRun(Current.case)
    /\ Finish("keyerror")
    /\ UNCHANGED ovars
    /\ UNCHANGED <<sheet, df, tests, nSession, nSend, nHttp, nResult, nWrite, lastWrite>>

\* test_yaml_api, the skip branch: pytest.skip().
YamlSkip ==
    /\ Running /\ pc.step = "begin" /\ Current.fn = "yaml"
    /\ HasRun(Current.case)
    /\ NotRun(Current.case)
    /\ Finish("skipped")
    /\ UNCHANGED ovars
    /\ UNCHANGED <<sheet, df, tests, nSession, nSend, nHttp, nResult, nWrite, lastWrite>>

\* result = manage.execute_test_case(case), in either test function.  An
\* exception escaping it would end the test with an error; a call of
\* session.request that never returns leaves the test, and the run, blocked.
Execute ==
    /\ Running /\ pc.step = "begin"
    /\ HasRun(Current.case)
    /\ ~NotRun(Current.case)
    /\ \E tr \in Transports :
         LET r == execute_test_case(Current.case, tr)
         IN  /\ nSession' = nSession + r.sessions
             /\ nSend' = [nSend EXCEPT ![pc.k] = @ + 1]
             /\ nHttp' = [nHttp EXCEPT ![pc.k] = @ + r.http]
             /\ IF r.blocked
                THEN /\ pc' = [pc EXCEPT !.step = "blocked"]
                     /\ transport' = tr
                     /\ sent' = r.wire
                     /\ UNCHANGED <<result, response, nResult, outcome>>
                ELSE IF r.raised
                THEN /\ Finish("error")
                     /\ UNCHANGED nResult
                ELSE /\ result' = r.result
                     /\ response' = r.response
                     /\ transport' = IF r.http = 1 THEN tr ELSE Unsent
                     /\ sent' = r.wire
                     /\ nResult' = [nResult EXCEPT ![pc.k] = @ + 1]
                     /\ pc' = [pc EXCEPT !.step = "executed"]
                     /\ UNCHANGED outcome
    /\ UNCHANGED ovars
    /\ UNCHANGED <<sheet, df, tests, nWrite, lastWrite>>

\* test_excel_api: excel.write_to_excel(row=case['row'], result=result)
ExcelWrite ==
    /\ Running /\ pc.step = "executed" /\ Current.fn = "excel"
    /\ \E failAt \in FailPoints :
         LET w == write_to_excel([df |-> df, sheet |-> sheet], Current.case.row, result, failAt)
         IN  /\ df' = w.df
             /\ sheet' = w.sheet
             /\ lastWrite' = [k |-> pc.k, row |-> Current.case.row, result |-> result,
                              failAt |-> failAt, failed |-> w.failed,
                              returned |-> w.returned, raised |-> w.raised]
             /\ IF w.raised
                THEN Finish("error")
                ELSE /\ pc' = [pc EXCEPT !.step = "written"]
                     /\ UNCHANGED <<result, response, transport, sent, outcome>>
    /\ nWrite' = [nWrite EXCEPT ![pc.k] = @ + 1]
    /\ UNCHANGED ovars
    /\ UNCHANGED <<tests, nSession, nSend, nHttp, nResult>>

\* assert result['result'] == 'pass'
Asserted == IF PyEq(result.result, Pass) THEN "passed" ELSE "failed"

\* Variant: the assertion placed before the write-back.
ExcelAssert_BeforeWrite ==
    /\ Running /\ pc.step = "executed" /\ Current.fn = "excel"
    /\ Finish(Asserted)
    /\ UNCHANGED ovars
    /\ UNCHANGED <<sheet, df, tests, nSession, nSend, nHttp, nResult, nWrite, lastWrite>>

ExcelAssert ==
    /\ Running /\ pc.step = "written" /\ Current.fn = "excel"
    /\ Finish(Asserted)
    /\ UNCHANGED ovars
    /\ UNCHANGED <<sheet, df, tests, nSession, nSend, nHttp, nResult, nWrite, lastWrite>>

YamlAssert ==
    /\ Running /\ pc.step = "executed" /\ Current.fn = "yaml"
    /\ Finish(Asserted)
    /\ UNCHANGED ovars
    /\ UNCHANGED <<sheet, df, tests, nSession, nSend, nHttp, nResult, nWrite, lastWrite>>

Next ==
    \/ ExcelSkip
    \/ YamlKeyError
    \/ YamlSkip
    \/ Execute
    \/ ExcelWrite
    \/ ExcelAssert
    \/ YamlAssert

Spec == Init /\ [][Next]_vars

-----------------------------------------------------------------------------
\* The run of the order script (pachong/api/main.py): the operation and the
\* count have been read and confirmed (the count is at least 1), and
\* execute_buy_orders or execute_sell_orders runs its loop.
EngineIdle ==
    /\ sheet = <<>> /\ df = <<>> /\ tests = <<>>
    /\ pc = [k |-> 1, step |-> "begin"]
    /\ result = NoResult /\ response = NoSummary /\ transport = Idle
    /\ sent = NoRequest /\ nSession = 0
    /\ nSend = <<>> /\ nHttp = <<>> /\ nResult = <<>> /\ nWrite = <<>>
    /\ lastWrite = NoWrite /\ outcome = <<>>

OrderInit ==
    /\ EngineIdle
    /\ oside \in {"buy", "sell"}
    /\ ocount \in 1..MaxCount
    /\ results = <<>> /\ posts = <<>>
    /\ summary = NoSummaryShown
    /\ ophase = "loop"

\* Variant: the loop ends at the first order that failed.
InLoop_StopOnFailure ==
    /\ Len(results) < ocount
    /\ \A i \in 1..Len(results) : results[i].success

\* for i in range(count): the loop has an iteration left.
InLoop == Len(results) < ocount

\* One iteration of the loop: generate the order, post it, append the result.
OrderStep(order) ==
    /\ ophase = "loop" /\ InLoop
    /\ \E net \in PostOutcomes :
         LET r == execute_single_order(order, net)
         IN  /\ posts' = Append(posts, [data |-> to_form_data(order), net |-> net])
             /\ IF r.raised
                THEN /\ ophase' = "raised"
                     /\ UNCHANGED results
                ELSE /\ results' = Append(results, r.result)
                     /\ UNCHANGED ophase
    /\ UNCHANGED <<oside, ocount, summary>>
    /\ UNCHANGED evars

\* OrderExecutor.execute_buy_orders, one iteration
BuyStep == oside = "buy" /\ OrderStep(generate_buy_order)

\* OrderExecutor.execute_sell_orders, one iteration
SellStep == oside = "sell" /\ OrderStep(generate_sell_order)

\* After the loop: self._show_summary(results, ...)
ShowSummary ==
    /\ ophase = "loop" /\ ~InLoop
    /\ summary' = show_summary(results)
    /\ ophase' = "done"
    /\ UNCHANGED <<oside, ocount, results, posts>>
    /\ UNCHANGED evars

OrderNext ==
    \/ BuyStep
    \/ SellStep
    \/ ShowSummary

OrderSpec == OrderInit /\ [][OrderNext]_vars

-----------------------------------------------------------------------------
\* Properties.

Executed == Running /\ pc.step \in {"executed", "written"}
Blocked == Running /\ pc.step = "blocked"
Finished(k) == outcome[k] # "none"
TestIds == 1..Len(tests)

\* The run flag is 'yes' up to letter case.
FlagIsYes(case) == Lower(case.run.v) = <<"y", "e", "s">>

\* C1: a case whose run flag is not 'yes' (case-insensitively) is skipped and
\* send_request is never called for it; a case is skipped only if its run
\* flag is not 'yes'; in both runners.
C1_SkipIffFlagOff ==
    \A k \in TestIds :
        /\ ~FlagIsYes(tests[k].case) => nSend[k] = 0 /\ nHttp[k] = 0
        /\ (Finished(k) /\ HasRun(tests[k].case))
              => (outcome[k] = "skipped" <=> ~FlagIsYes(tests[k].case))
        /\ (lastWrite.k = k /\ PyEq(lastWrite.result.result, Skip))
              => ~FlagIsYes(tests[k].case)
        /\ (pc.k = k /\ pc.step # "begin") => FlagIsYes(tests[k].case)

\* C1 witness: both runners' kinds of test are decided: a skipped test with no
\* request next to an executed one, the flag of one of them not in lower case.
C1_Witness ==
    \E j, k \in TestIds :
        /\ outcome[j] = "skipped" /\ nSend[j] = 0
        /\ outcome[k] = "failed" /\ nSend[k] = 1
        /\ tests[k].case.run.v # Yes

\* The three match rules on what the server answered.
StatusMatches(case, tr) == tr.kind = "answer" /\ case.expected.status_code.v = tr.status
MsgMatches(case, tr) ==
    /\ tr.kind = "answer" /\ tr.parses /\ tr.json.t = "dict" /\ DictHas(tr.json, "msg")
    /\ case.expected.msg.v = DictGet(tr.json, "msg").v
DataMatches(case, tr) ==
    tr.kind = "answer" /\ tr.parses /\ IsSubstring(case.expected.data.v, PyStr(tr.json))

\* C2: the verdict of an executed case is pass if and only if the status
\* code, the msg field and the data fragment all match the response.
C2_PassIffAllThree ==
    Executed =>
        (PyEq(result.result, Pass) <=>
            /\ StatusMatches(Current.case, transport)
            /\ MsgMatches(Current.case, transport)
            /\ DataMatches(Current.case, transport))

\* C3: for a case loaded from the table, the status-code check succeeds when
\* the expected status code is the text of the actual integer status code.
C3_StatusCoercion ==
    (Executed /\ Current.fn = "excel" /\ response.t = "summary"
        /\ Current.case.expected.status_code.v = response.code.v)
    => status_code_check(Current.case, response.code)

\* C4: after a transport-level failure (timeout, connection refused, DNS
\* failure) nothing is raised and the summary handed to the validator has
\* status_code 0 and a non-empty error body.
TransportFailed == transport.kind \in {"timeout", "refused", "dns"}
C4_FailureSummary ==
    /\ \A k \in TestIds : outcome[k] # "error"
    /\ (Executed /\ TransportFailed)
         => /\ response.t = "summary"
            /\ response.code = IntV(<<"0">>)
            /\ response.body.v # <<>>

\* The rows below the header row, by DataFrame row index.
DataRows(ws) == [r \in 0..(Len(ws) - 2) |-> ws[r + 2]]
ResultCols == {COLUMNS.result, COLUMNS.response}

\* C5: a write-back for case row R changes, in the workbook, only the result
\* and response cells of row R (value and font), and nothing changes the
\* workbook but a write-back.
C5_WriteFrame ==
    [][ /\ sheet'[1] = sheet[1]
        /\ DOMAIN sheet' = DOMAIN sheet
        /\ \A r \in DOMAIN DataRows(sheet) : \A c \in 0..(NCols - 1) :
             DataRows(sheet')[r][c + 1] # DataRows(sheet)[r][c + 1]
                => /\ nWrite' # nWrite
                   /\ r = lastWrite'.row
                   /\ c \in ResultCols
        /\ \A r \in DOMAIN df : \A c \in 0..(NCols - 1) :
             df'[r][c] # df[r][c]
                => nWrite' # nWrite /\ r = lastWrite'.row /\ c \in ResultCols
      ]_vars

\* C5 witness: a verdict was written into a row while another row holds an
\* earlier, styled result.
C5_Witness ==
    /\ lastWrite.k > 0 /\ ~lastWrite.failed
    /\ DataRows(sheet)[lastWrite.row][COLUMNS.result + 1].value = lastWrite.result.result
    /\ \E r \in DOMAIN DataRows(sheet) \ {lastWrite.row} :
          DataRows(sheet)[r][COLUMNS.result + 1].font # DefaultFont

\* C6: after a write-back of verdict V for the case of row index R, a fresh
\* load of the workbook yields V as the stored result of the case with row
\* index R, and what is loaded for every other row, and for the other
\* columns of row R, is what was loaded before the write.
FreshLoad(ws) == load_test_cases(ReadExcel(ws)).cases
C6_RoundTrip ==
    [][ nWrite' # nWrite =>
          LET R      == lastWrite'.row
              before == FreshLoad(sheet)
              after  == FreshLoad(sheet')
          IN  /\ DOMAIN after = DOMAIN before
              /\ R \in DOMAIN after
              /\ after[R].row = R
              /\ ~lastWrite'.failed => PyEq(after[R].result.result, lastWrite'.result.result)
              /\ \A r \in DOMAIN after \ {R} : after[r] = before[r]
              /\ [after[R] EXCEPT !.result = before[R].result] = before[R]
              /\ \A r \in DOMAIN ReadExcel(sheet) \ {R} :
                    ReadExcel(sheet')[r] = ReadExcel(sheet)[r]
      ]_vars

\* C6 witness: a verdict was saved for a row that has a row above and a row
\* below it, and a fresh load shows it.
C6_Witness ==
    /\ lastWrite.k > 0 /\ ~lastWrite.failed
    /\ {lastWrite.row - 1, lastWrite.row + 1} \subseteq DOMAIN ReadExcel(sheet)
    /\ PyEq(FreshLoad(sheet)[lastWrite.row].result.result, lastWrite.result.result)
    /\ PyEq(lastWrite.result.result, Fail)

\* C7: repeating the latest write-back, with the same row, verdict and
\* response text, leaves workbook and DataFrame as they are.
C7_Idempotent ==
    lastWrite.k > 0 =>
        LET again == write_to_excel([df |-> df, sheet |-> sheet], lastWrite.row,
                                    lastWrite.result, lastWrite.failAt)
        IN  again.sheet = sheet /\ again.df = df

\* C7 witness: a complete write-back replaced an earlier result and restyled it.
C7_Witness ==
    /\ lastWrite.k > 0 /\ lastWrite.failAt = "none"
    /\ DataRows(sheet)[lastWrite.row][COLUMNS.result + 1] =
          Cell(Fail, Font(TRUE, STYLES["fail"]))
    /\ DataRows(sheet)[lastWrite.row][COLUMNS.response + 1].value.v # <<"old">>
    /\ DataRows(sheet)[lastWrite.row][COLUMNS.response + 1].font = Font(TRUE, "0000FF")

\* C8: execute_test_case never raises: an exception in dispatch or validation
\* (a body that is not a mapping, a body that cannot be parsed) becomes a
\* fail result whose response text carries the exception text, and the run
\* goes on to the following tests.
C8_NeverRaises ==
    /\ \A k \in TestIds : outcome[k] # "error"
    /\ \A k \in TestIds : k < pc.k => Finished(k)
    /\ (Running /\ ~Blocked) => ENABLED Next
    /\ Executed =>
         LET checks == validation_results(Current.case, response)
         IN  checks.raised =>
               /\ PyEq(result.result, Fail)
               /\ result.response.t = "str"
               /\ result.response.v = ErrorPrefix \o checks.err

\* C8 witness: after a failed first test, the second test got an answer whose
\* body is not a mapping and ended as a fail result carrying the exception text.
C8_Witness ==
    /\ pc.k >= 2 /\ outcome[1] = "failed" /\ Executed
    /\ transport.kind = "answer" /\ transport.parses /\ transport.json.t = "list"
    /\ PyEq(result.result, Fail)
    /\ IsSubstring(<<"string indices must be integers">>, result.response.v)

\* C9: in the tabular runner the result of an executed case has been handed
\* to write_to_excel, once and for the row of the case, when the assertion is
\* evaluated, and the assertion succeeds if and only if the verdict is pass.
C9_WriteBeforeAssert ==
    [][ \A k \in TestIds :
          (tests[k].fn = "excel" /\ outcome[k] = "none"
              /\ outcome'[k] \in {"passed", "failed", "error"})
          => /\ nWrite[k] = 1
             /\ lastWrite.k = k
             /\ lastWrite.result = result
             /\ lastWrite.row = tests[k].case.row
             /\ outcome'[k] = "passed" <=> PyEq(result.result, Pass)
      ]_vars

\* C9 witness: a tabular test failed its assertion and its fail verdict is
\* in the workbook.
C9_Witness ==
    \E k \in TestIds :
        /\ tests[k].fn = "excel" /\ outcome[k] = "failed" /\ nWrite[k] = 1
        /\ lastWrite.k = k /\ ~lastWrite.failed
        /\ DataRows(sheet)[tests[k].case.row][COLUMNS.result + 1].value = Fail

RunOver == pc.k > Len(tests)

\* C10 as stated: every loaded case, of either runner, produces exactly one
\* verdict record and write_to_excel is invoked exactly once for it, with the
\* row index of the case.
C10_OneRecordOneWriteEveryCase ==
    \A k \in TestIds :
        /\ nResult[k] <= 1 /\ nWrite[k] <= 1
        /\ Finished(k) => nResult[k] = 1 /\ nWrite[k] = 1
        /\ (lastWrite.k = k /\ tests[k].fn = "excel") => lastWrite.row = tests[k].case.row

\* C10 amended: every loaded case of the tabular runner produces exactly one
\* verdict record and exactly one write_to_excel call, skipped cases
\* included, with the row index of the case; the structured-text runner never
\* calls write_to_excel and produces a verdict record only for the cases it
\* executes.
C10_TabularOneRecordOneWrite ==
    \A k \in TestIds :
        /\ nResult[k] <= 1 /\ nWrite[k] <= 1
        /\ tests[k].fn = "excel" =>
             /\ Finished(k) => nResult[k] = 1 /\ nWrite[k] = 1
             /\ lastWrite.k = k => lastWrite.row = tests[k].case.row
        /\ tests[k].fn = "yaml" =>
             /\ nWrite[k] = 0 /\ lastWrite.k # k
             /\ Finished(k) => (nResult[k] = 1 <=> outcome[k] \notin {"skipped", "keyerror"})

\* C10 witness: a tabular run is over with a skipped and an executed case,
\* each written once.
C10_Witness ==
    /\ RunOver
    /\ \E j, k \in TestIds :
          /\ tests[j].fn = "excel" /\ tests[k].fn = "excel"
          /\ outcome[j] = "skipped" /\ outcome[k] = "failed"
          /\ nWrite[j] = 1 /\ nWrite[k] = 1 /\ nResult[j] = 1 /\ nResult[k] = 1

\* The value in the result cell of the workbook row of tabular test k.
StoredResult(k) == DataRows(sheet)[tests[k].case.row][COLUMNS.result + 1].value

\* C11: a result write that fails does not abort the run: write_to_excel
\* raises nothing, the verdict of the case still reaches the assertion, and
\* every later case is still executed and written.
C11_WriteFailureNotFatal ==
    /\ \A k \in TestIds : outcome[k] # "error"
    /\ (Running /\ pc.step = "written" /\ lastWrite.failed) => ENABLED ExcelAssert
    /\ \A k \in TestIds :
          (tests[k].fn = "excel" /\ k < pc.k)
             => /\ nWrite[k] = 1
                /\ outcome[k] = (IF FlagIsYes(tests[k].case) THEN "failed" ELSE "skipped")

\* C11 witness: the write of the first case failed before its verdict was
\* stored, the case failed its assertion all the same, and the second case
\* was executed and its verdict written.
C11_Witness ==
    /\ Len(tests) >= 2 /\ tests[1].fn = "excel"
    /\ outcome[1] = "failed" /\ StoredResult(1) # Fail
    /\ outcome[2] = "failed" /\ lastWrite.k = 2 /\ ~lastWrite.failed
    /\ StoredResult(2) = Fail

\* C12: load_test_cases returns exactly one case per data row of the table
\* (every row after the header row, the first data row included), in table
\* order.
C12_OneCasePerDataRow ==
    LET load == load_test_cases(ReadExcel(sheet))
    IN  ~load.raised =>
           /\ Len(load.cases) = Len(sheet) - 1
           /\ \A i \in 1..Len(load.cases) : load.cases[i].row = i - 1

\* The authored auth flag of the workbook row of tabular test k.
TokenCell(k) == DataRows(sheet)[tests[k].case.row][COLUMNS.token + 1].value

\* C13: a row whose auth flag is 'yes' yields a case whose request headers
\* already hold Authorization = the shared token when it is loaded, and the
\* headers handed to the HTTP session for a case are exactly the headers of
\* its loaded record.
C13_AuthorizationAtLoad ==
    /\ \A k \in TestIds :
          (tests[k].fn = "excel" /\ TokenCell(k) = Str(Yes))
             => /\ DictHas(tests[k].case.request.headers, "Authorization")
                /\ DictGet(tests[k].case.request.headers, "Authorization") = Str(TOKEN)
    /\ (Executed /\ sent.sent) => sent.headers = Current.case.request.headers

\* C13 witness: a flagged row with authored headers of its own has been
\* dispatched with both the authored header and the injected one.
C13_Witness ==
    /\ Executed /\ Current.fn = "excel" /\ TokenCell(pc.k) = Str(Yes)
    /\ sent.sent
    /\ DictHas(sent.headers, "X")
    /\ DictGet(sent.headers, "Authorization") = Str(TOKEN)

\* C14: the load is all-or-nothing: when any data row of the table has a
\* header or payload cell that does not parse, load_test_cases raises and no
\* case of the table is run; it never yields only the rows that parsed.
C14_LoadAllOrNothing ==
    LET d == ReadExcel(sheet)
    IN  (\E row \in DOMAIN d : Malformed(d, row))
           => load_test_cases(d).raised /\ tests = <<>>

\* The three expected values of the running case all match the answer.
AllMatch ==
    /\ StatusMatches(Current.case, transport)
    /\ MsgMatches(Current.case, transport)
    /\ DataMatches(Current.case, transport)

\* C15: an executed case whose response was received but does not satisfy
\* the expected values (404 where 200 is expected, say) has verdict fail and
\* the response text of its verdict record contains the literal text of the
\* body that was received.
C15_FailKeepsBodyText ==
    (Executed /\ transport.kind = "answer" /\ transport.parses /\ ~AllMatch)
       => /\ result.result = Fail
          /\ IsSubstring(PyStr(transport.json), PyStr(result.response))

Untouched(k) ==
    /\ outcome[k] = "none"
    /\ nSend[k] = 0 /\ nHttp[k] = 0 /\ nResult[k] = 0 /\ nWrite[k] = 0

\* Test k is complete: its outcome is known and, in the tabular runner, its
\* verdict has been written back.
Complete(k) == Finished(k) /\ (tests[k].fn = "excel" => nWrite[k] = 1)

\* C17: cases are processed strictly one at a time in the order of the
\* source table: whenever a case is being processed, every case before it is
\* complete (dispatch, validation and write-back) and no case after it has
\* been touched, so no two requests are ever in flight.
C17_OneAtATimeInOrder ==
    /\ \A j, k \in TestIds :
          (j < k /\ tests[j].fn = "excel") => tests[j].case.row < tests[k].case.row
    /\ \A k \in TestIds :
          /\ k < pc.k => Complete(k)
          /\ k > pc.k => Untouched(k)
    /\ \A k \in TestIds : (nSend[k] > 0) => \A j \in 1..(k - 1) : Complete(j)
    /\ sent.sent => (Running /\ nHttp[pc.k] = 1)

\* C17 witness: the request of the second case of the table is out while the
\* first case has been dispatched, validated and written back.
C17_Witness ==
    /\ Executed /\ pc.k = 2 /\ Current.fn = "excel" /\ sent.sent
    /\ nHttp[1] = 1 /\ nWrite[1] = 1 /\ outcome[1] = "failed"

\* One step leaves every finished test as it is and never moves back.
TerminalStep ==
    /\ \A k \in TestIds :
          Finished(k) => /\ outcome'[k] = outcome[k]
                         /\ nSend'[k] = nSend[k] /\ nHttp'[k] = nHttp[k]
                         /\ nResult'[k] = nResult[k] /\ nWrite'[k] = nWrite[k]
    /\ \A k \in TestIds : nResult[k] = 1 => nHttp'[k] = nHttp[k]
    /\ pc'.k >= pc.k
    /\ (pc'.k = pc.k /\ pc.step # "begin") => pc'.step # "begin"

\* C18: every case ends exactly once and never returns to the loaded state;
\* it is dispatched at most once (a failed dispatch is not retried), and once
\* its verdict is recorded no further request is sent for it.
C18_TerminalOnceNoRetry ==
    /\ [](\A k \in TestIds : nSend[k] <= 1 /\ nHttp[k] <= 1 /\ nResult[k] <= 1)
    /\ [](RunOver => \A k \in TestIds : Finished(k))
    /\ [][TerminalStep]_vars

\* C18 witness: the request of the second case got no answer and was sent
\* once; the first case has ended after its one dispatch.
C18_Witness ==
    /\ Executed /\ pc.k = 2 /\ TransportFailed
    /\ nSend[2] = 1 /\ nHttp[2] = 1
    /\ Finished(1) /\ nSend[1] = 1

\* The payload mode of the case is none of params, data, json, file.
Unsupported(case) == case.type.v \notin PayloadModes

\* The dispatch of the running case failed: no answer came, or the payload
\* mode is not supported.
DispatchFailed == Executed /\ (TransportFailed \/ Unsupported(Current.case))

\* A case whose dispatch failed has verdict fail, and the run goes on: no
\* test ends in an error, and a flagged case that has ended has failed.
DispatchFailedFails ==
    /\ DispatchFailed => result.result = Fail
    /\ \A k \in TestIds : outcome[k] \notin {"error", "passed"}
    /\ \A k \in TestIds :
          (Finished(k) /\ FlagIsYes(tests[k].case)) => outcome[k] = "failed"
    /\ (Running /\ ~Blocked) => ENABLED Next

\* C19: a case whose dispatch fails (timeout, connection failure, payload
\* mode not supported) is still validated, against the synthetic failure
\* summary, and gets verdict fail; it is never pass or skip and the run goes
\* on.
C19_DispatchFailureValidated ==
    /\ DispatchFailedFails
    /\ DispatchFailed =>
          /\ response.t = "summary"
          /\ ~validation_results(Current.case, response).raised

\* C20: for a payload mode other than params, data, json and file,
\* send_request makes no HTTP request and the case ends with verdict fail.
C20_UnsupportedModeSendsNothing ==
    /\ (Executed /\ Unsupported(Current.case))
          => /\ nSend[pc.k] = 1 /\ nHttp[pc.k] = 0
             /\ ~sent.sent /\ transport = Unsent
             /\ result.result = Fail
    /\ \A k \in TestIds :
          (Finished(k) /\ Unsupported(tests[k].case) /\ FlagIsYes(tests[k].case))
             => nHttp[k] = 0 /\ outcome[k] = "failed"

\* C20 witness: a case with payload mode 'xml' has ended as failed after one
\* call of send_request and no HTTP request, and the next one is under way.
C20_Witness ==
    /\ Len(tests) >= 2 /\ Unsupported(tests[1].case)
    /\ outcome[1] = "failed" /\ nSend[1] = 1 /\ nHttp[1] = 0
    /\ Executed /\ pc.k = 2 /\ Unsupported(Current.case) /\ ~sent.sent

\* C21: one HTTP session is shared by all dispatched requests of a run: at
\* most one session is ever created.
C21_SingleSession == nSession <= 1

\* C22: load_test_cases is a function of the file as it is on disk: after any
\* sequence of loads and write-backs, a failed save included, the list it
\* returns is the list a fresh loader returns from the workbook.
C22_LoadReadsDisk == load_test_cases(df) = load_test_cases(ReadExcel(sheet))

\* C23: every dispatch returns to the case runner even when the server never
\* answers: each request carries the fixed timeout of 30 seconds, so no
\* request blocks the run.
C23_DispatchReturns ==
    /\ sent.sent => sent.timeout = IntV(<<"30">>)
    /\ ~Blocked

\* C24: only load-time errors escape as exceptions: a case record that lacks
\* a required field is rejected or defaulted when the cases are loaded, and
\* no exception escapes while a case is run.
C24_OnlyLoadTimeErrors ==
    /\ \A k \in TestIds : HasRun(tests[k].case)
    /\ \A k \in TestIds : outcome[k] \notin {"error", "keyerror"}

\* What the caller of the last write_to_excel call saw of it.
Indication == [returned |-> lastWrite.returned, raised |-> lastWrite.raised]

\* C25: a failed result write is surfaced to the caller of write_to_excel:
\* what the caller sees of a write that failed differs from what it sees of a
\* write that succeeded.
C25_WriteFailureSurfaced ==
    (lastWrite.k # 0 /\ lastWrite.failed)
       => Indication # [returned |-> NoneV, raised |-> FALSE]

\* The three verdicts, and the colour STYLES maps a verdict to.
Verdicts == {Pass, Fail, Skip}
ColourOf(v) == STYLES[v.v[1]]

\* The workbook after write_to_excel has written verdict v, with response
\* text "r", to the row of the running tabular case, the save succeeding.
Written(v) ==
    write_to_excel([df |-> df, sheet |-> sheet], Current.case.row,
                   create_result(Current.case.name, v, Str(<<"r">>)), "none").sheet

\* C26: the style of a write-back is keyed by the verdict: after
\* write_to_excel has written verdict v to row R, the result cell of R holds v
\* in the colour mapped to v, the three colours are pairwise distinct, and the
\* response-text cell of R keeps the style it had.
C26_StyleKeyedByVerdict ==
    /\ \A u, v \in Verdicts : u # v => ColourOf(u) # ColourOf(v)
    /\ (Running /\ Current.fn = "excel") =>
          \A v \in Verdicts :
             LET before == DataRows(sheet)[Current.case.row]
                 after  == DataRows(Written(v))[Current.case.row]
             IN  /\ after[COLUMNS.result + 1] = Cell(v, Font(TRUE, ColourOf(v)))
                 /\ after[COLUMNS.response + 1].value = Str(<<"r">>)
                 /\ after[COLUMNS.response + 1].font = before[COLUMNS.response + 1].font
    /\ (lastWrite.k # 0 /\ ~lastWrite.failed) =>
          LET row == DataRows(sheet)[lastWrite.row]
              v   == lastWrite.result.result
          IN  row[COLUMNS.result + 1] = Cell(v, Font(TRUE, ColourOf(v)))

\* C26 witness: a skip verdict and then a fail verdict have been written, each
\* in its own colour, and the response cell written with the fail verdict
\* still has the blue font it was authored with.
C26_Witness ==
    /\ Len(tests) >= 2 /\ tests[1].fn = "excel"
    /\ DataRows(sheet)[tests[1].case.row][COLUMNS.result + 1]
          = Cell(Skip, Font(TRUE, STYLES.skip))
    /\ lastWrite.k = 2 /\ ~lastWrite.failed /\ lastWrite.result.result = Fail
    /\ DataRows(sheet)[lastWrite.row][COLUMNS.result + 1] = Cell(Fail, Font(TRUE, STYLES.fail))
    /\ DataRows(sheet)[lastWrite.row][COLUMNS.response + 1].font = Font(TRUE, "0000FF")
    /\ DataRows(sheet)[lastWrite.row][COLUMNS.response + 1].value # Str(<<"old">>)

\* C27: a write-back of one verdict record is all-or-nothing across its two
\* cells: once write_to_excel has returned, the row never holds the new
\* response text together with a verdict other than the one of the record.
C27_WriteBackAtomic ==
    lastWrite.k # 0 =>
       LET row == DataRows(sheet)[lastWrite.row]
       IN  row[COLUMNS.response + 1].value = Str(PyStr(lastWrite.result.response))
              => row[COLUMNS.result + 1].value = lastWrite.result.result

\* The authored header cell of the workbook row of tabular test k.
HeaderCell(k) == DataRows(sheet)[tests[k].case.row][COLUMNS.header + 1].value
Mentions(cell, word) == \E i \in 1..Len(cell.v) : cell.v[i] = word

\* C28: header mappings are not shared between case records: a case whose
\* auth flag is not 'yes' and whose header cell holds no Authorization has
\* none in its loaded headers, whatever the other rows are and wherever they
\* stand.
C28_HeadersNotShared ==
    \A k \in TestIds :
       (tests[k].fn = "excel" /\ TokenCell(k) # Str(Yes)
           /\ ~Mentions(HeaderCell(k), "Authorization"))
          => ~DictHas(tests[k].case.request.headers, "Authorization")

\* C28 witness: a flagged case with an empty header cell was loaded before an
\* unflagged case with an empty header cell; the first has the Authorization
\* header, the second has no header at all, and the run has started.
C28_Witness ==
    /\ Len(tests) >= 2 /\ tests[1].fn = "excel" /\ pc.k > 1
    /\ TokenCell(1) = Str(Yes) /\ HeaderCell(1) = NaN
    /\ DictHas(tests[1].case.request.headers, "Authorization")
    /\ TokenCell(2) # Str(Yes) /\ HeaderCell(2) = NaN
    /\ tests[2].case.request.headers = Dict(<<>>)

-----------------------------------------------------------------------------
\* The order script's properties (under OrderSpec).

\* The i-th post of the run and the OrderResult it produced.
Answered == 1..Len(results)
NetOf(i) == posts[i].net
IsException(net) == net.kind # "response"

\* C29, as stated: post_order never raises; success is True exactly when a
\* response with HTTP status 200 was received; for a timeout, a connection
\* error or any other exception the result has success False, status_code 0
\* and a non-empty error message.
C29_PostOrderNeverRaises ==
    /\ ophase # "raised"
    /\ \A i \in Answered :
         /\ results[i].success <=> (NetOf(i).kind = "response" /\ NetOf(i).status = 200)
         /\ IsException(NetOf(i)) =>
               /\ ~results[i].success
               /\ results[i].status_code = 0
               /\ results[i].error_message # <<>>

\* C29, amended: post_order never raises; success is True exactly when a
\* response with HTTP status 200 was received; a response's status code is
\* reported as received; for any exception the result has success False,
\* status_code 0 and empty response data; the message is a fixed non-empty
\* text for a timeout and for a connection error, and str(e) for any other
\* exception, which is empty when the exception carries no message.
C29_PostOrderNeverRaises_Amended ==
    /\ ophase # "raised"
    /\ Len(results) = Len(posts)
    /\ TimeoutText # <<>> /\ ConnectionText # <<>>
    /\ \A i \in Answered :
         /\ results[i].success <=> (NetOf(i).kind = "response" /\ NetOf(i).status = 200)
         /\ ~IsException(NetOf(i)) => results[i].status_code = NetOf(i).status
         /\ IsException(NetOf(i)) =>
               /\ ~results[i].success
               /\ results[i].status_code = 0
               /\ results[i].response_data = Str(<<>>)
               /\ results[i].error_message =
                     CASE NetOf(i).kind = "Timeout" -> TimeoutText
                       [] NetOf(i).kind = "ConnectionError" -> ConnectionText
                       [] OTHER -> NetOf(i).msg

\* A run in which post_order answered a 200 response, a timeout and an
\* exception without a message.
C29_Witness ==
    /\ Len(results) = 3
    /\ NetOf(1).kind = "response" /\ NetOf(1).status = 200 /\ results[1].success
    /\ NetOf(2).kind = "Timeout" /\ results[2].error_message = TimeoutText
    /\ NetOf(3) = Exc("Other", <<>>) /\ results[3] = OrderResult(FALSE, 0, Str(<<>>), <<>>)

\* The form data the chosen operation posts.
FormOf(side) ==
    IF side = "buy" THEN to_form_data(generate_buy_order)
    ELSE to_form_data(generate_sell_order)

\* C30: execute_buy_orders(count) and execute_sell_orders(count) issue exactly
\* count order requests of the chosen side, one per iteration, whatever the
\* outcome of each request: a failed order neither stops the loop nor is
\* retried; the summary reports total = count and success count + failure
\* count = total.
C30_ExactlyCountOrders ==
    /\ Len(posts) = Len(results)
    /\ Len(posts) <= ocount
    /\ \A i \in 1..Len(posts) : posts[i].data = FormOf(oside)
    /\ (ophase = "loop" /\ Len(posts) < ocount) => ENABLED (BuyStep \/ SellStep)
    /\ (ophase = "loop" /\ Len(posts) < ocount) => ~ENABLED ShowSummary
    /\ ophase \in {"loop", "done"}
    /\ summary.shown <=> ophase = "done"
    /\ ophase = "done" =>
          /\ Len(posts) = ocount
          /\ summary.total = ocount
          /\ summary.success + summary.failure = summary.total
          /\ summary.success = Cardinality({i \in Answered : results[i].success})

\* Three orders were asked for; the second failed, the third was still
\* issued and succeeded, and the summary counts all three.
C30_Witness ==
    /\ ophase = "done" /\ ocount = 3 /\ Len(posts) = 3
    /\ results[1].success /\ ~results[2].success /\ results[3].success
    /\ summary = [shown |-> TRUE, total |-> 3, success |-> 2, failure |-> 1]

====
